---- MODULE Spec2Model ----
(***************************************************************************)
(* Model of the two components of the repository:                          *)
(*   src/tprg2131resistor.py   class Resistor                              *)
(*   src/resistorcapacitor1.py class ResistorCapacitor                     *)
(*                                                                         *)
(* Python floats are modelled as binary floating-point numbers with a      *)
(* mantissa of Precision bits, rounded to nearest, ties to even, after     *)
(* every arithmetic operation, exactly as IEEE-754 does with 53 bits.  The  *)
(* exponent is unbounded, so the model covers the finite range in which    *)
(* no overflow to inf and no NaN occurs.  A float is the pair <<m, e>>      *)
(* standing for m * 2^e, kept canonical: m is odd, or m = 0 and e = 0.      *)
(***************************************************************************)
EXTENDS Integers, Sequences, FiniteSets, TLC

\* Number of mantissa bits of a float (53 in CPython; small here).
Precision == 3

\* Largest number of Resistor objects the caller holds a reference to.
MaxResistors == 2

\* Largest number of ResistorCapacitor objects alive in one run.
MaxNetworks == 3

(***************************************************************************)
(* Floating-point arithmetic                                               *)
(***************************************************************************)
RECURSIVE Pow2(_)
Pow2(k) == IF k <= 0 THEN 1 ELSE 2 * Pow2(k - 1)

RECURSIVE Canon(_, _)
Canon(m, e) ==
    IF m = 0 THEN <<0, 0>>
    ELSE IF m % 2 = 0 THEN Canon(m \div 2, e + 1)
    ELSE <<m, e>>

\* Mantissas m satisfy HalfLimit <= |m| < MantissaLimit before they are made odd.
MantissaLimit == Pow2(Precision)
HalfLimit == Pow2(Precision - 1)

\* n / d * 2^e for n >= 0, d > 0, rounded to Precision bits, ties to even.
RECURSIVE RoundPos(_, _, _)
RoundPos(n, d, e) ==
    IF n = 0 THEN <<0, 0>>
    ELSE IF n < d * HalfLimit THEN RoundPos(2 * n, d, e - 1)
    ELSE IF n >= d * MantissaLimit THEN RoundPos(n, 2 * d, e + 1)
    ELSE LET q == n \div d
             r == n % d
             up == (2 * r > d) \/ (2 * r = d /\ q % 2 = 1)
         IN  Canon(IF up THEN q + 1 ELSE q, e)

FNeg(a) == <<0 - a[1], a[2]>>

Round(n, d, e) ==
    IF n < 0 THEN FNeg(RoundPos(0 - n, d, e)) ELSE RoundPos(n, d, e)

Zero == <<0, 0>>
One == <<1, 0>>

MinExp(a, b) == IF a[2] <= b[2] THEN a[2] ELSE b[2]

\* The integer a * 2^(-e), for e no larger than a's exponent.
Scaled(a, e) == a[1] * Pow2(a[2] - e)

FAdd(a, b) ==
    LET e == MinExp(a, b) IN Round(Scaled(a, e) + Scaled(b, e), 1, e)

FMul(a, b) == Round(a[1] * b[1], 1, a[2] + b[2])

\* a / b for b # 0 (Python raises ZeroDivisionError before dividing by 0.0).
FDiv(a, b) ==
    IF b[1] < 0 THEN Round(0 - a[1], 0 - b[1], a[2] - b[2])
    ELSE Round(a[1], b[1], a[2] - b[2])

FAbs(a) == IF a[1] < 0 THEN FNeg(a) ELSE a

FLt(a, b) == LET e == MinExp(a, b) IN Scaled(a, e) < Scaled(b, e)
FLe(a, b) == LET e == MinExp(a, b) IN Scaled(a, e) <= Scaled(b, e)
FGe(a, b) == FLe(b, a)

\* float(x) of a number x = m * 2^e.
float(x) == Round(x[1], 1, x[2])

(***************************************************************************)
(* class Resistor                                                          *)
(***************************************************************************)
VARIABLES
    heap,     \* the Resistor objects the caller holds, in order of creation
    last,     \* the latest constructor, mutator or combination call and its outcome
    nets,     \* the ResistorCapacitor objects: each one's instance attributes
    rclast    \* the most recent call on a ResistorCapacitor and its outcome

vars == <<heap, last, nets, rclast>>

\* Arguments the caller passes: (res, tol, pwr) given to Resistor(...).
ResistorArgs ==
    { <<One, <<5, 1>>, <<1, -2>>>>,       \* 1 ohm, 10 %, 1/4 W
      <<<<1, 4>>, <<5, 0>>, <<1, -1>>>>,  \* 16 ohm, 5 %, 1/2 W
      <<Zero, <<5, 0>>, <<1, -2>>>> }     \* 0 ohm, 5 %, 1/4 W

\* Voltages passed to set_voltage and currents passed to set_current.
Volts == { <<-3, 0>> }
Amps == { One }

Resistor(res, tol, pwr) ==
    [ resistance |-> float(res),
      tolerance  |-> float(tol),
      rating     |-> float(pwr),
      voltage    |-> Zero,
      current    |-> Zero,
      power      |-> Zero ]

\* set_voltage with the first assignment made to the wrong attribute.
set_voltage_into_resistance(self, v) ==
    LET s1 == [self EXCEPT !.resistance = v]
    IN  IF s1.resistance = Zero
        THEN [obj |-> s1, error |-> "ZeroDivisionError"]
        ELSE LET s2 == [s1 EXCEPT !.current = FDiv(v, s1.resistance)]
                 s3 == [s2 EXCEPT !.power = FAbs(FMul(s2.voltage, s2.current))]
             IN  [obj |-> s3, error |-> "none"]

\* A method's outcome: the receiver as the method leaves it, and the exception
\* raised ("none" when it returns).
set_voltage(self, v) ==
    LET s1 == [self EXCEPT !.voltage = v]
    IN  IF s1.resistance = Zero
        THEN [obj |-> s1, error |-> "ZeroDivisionError"]
        ELSE LET s2 == [s1 EXCEPT !.current = FDiv(v, s1.resistance)]
                 s3 == [s2 EXCEPT !.power = FAbs(FMul(s2.voltage, s2.current))]
             IN  [obj |-> s3, error |-> "none"]

set_current(self, amps) ==
    LET s1 == [self EXCEPT !.current = amps]
        s2 == [s1 EXCEPT !.voltage = FMul(amps, s1.resistance)]
        s3 == [s2 EXCEPT !.power = FAbs(FMul(s2.voltage, s2.current))]
    IN  [obj |-> s3, error |-> "none"]

get_resistance(self) == self.resistance
get_tolerance(self) == self.tolerance
get_rating(self) == self.rating
get_voltage(self) == self.voltage
get_current(self) == self.current
get_power(self) == self.power

Accessors ==
    { "get_resistance", "get_tolerance", "get_rating",
      "get_voltage", "get_current", "get_power" }

Accessor(name, self) ==
    CASE name = "get_resistance" -> get_resistance(self)
      [] name = "get_tolerance" -> get_tolerance(self)
      [] name = "get_rating" -> get_rating(self)
      [] name = "get_voltage" -> get_voltage(self)
      [] name = "get_current" -> get_current(self)
      [] name = "get_power" -> get_power(self)

\* A combination's outcome: whether it returned, the new Resistor it returns
\* (a placeholder when it raises before constructing one) and the exception.
NoResistor == Resistor(Zero, Zero, Zero)

\* series without the comparison of the ratings: the receiver's rating wins.
series_keeps_self_rating(self, other) ==
    LET rs == FAdd(self.resistance, other.resistance)
        newtol == IF FGe(self.tolerance, other.tolerance)
                  THEN self.tolerance ELSE other.tolerance
    IN  [made |-> TRUE, new |-> Resistor(rs, newtol, self.rating), error |-> "none"]

series(self, other) ==
    LET rs == FAdd(self.resistance, other.resistance)
        newtol == IF FGe(self.tolerance, other.tolerance)
                  THEN self.tolerance ELSE other.tolerance
        newrating == IF FLe(self.rating, other.rating)
                     THEN self.rating ELSE other.rating
    IN  [made |-> TRUE, new |-> Resistor(rs, newtol, newrating), error |-> "none"]

\* parallel without the final reciprocal: the sum of the conductances.
parallel_without_reciprocal(self, other) ==
    IF self.resistance = Zero \/ other.resistance = Zero
    THEN [made |-> FALSE, new |-> NoResistor, error |-> "ZeroDivisionError"]
    ELSE LET rp == FAdd(FDiv(One, self.resistance), FDiv(One, other.resistance))
             newtol == IF FGe(self.tolerance, other.tolerance)
                       THEN self.tolerance ELSE other.tolerance
             newrating == IF FLe(self.rating, other.rating)
                          THEN self.rating ELSE other.rating
         IN  [made |-> TRUE, new |-> Resistor(rp, newtol, newrating),
              error |-> "none"]

\* parallel without the comparison of the tolerances: the receiver's wins.
parallel_keeps_self_tolerance(self, other) ==
    IF self.resistance = Zero \/ other.resistance = Zero
    THEN [made |-> FALSE, new |-> NoResistor, error |-> "ZeroDivisionError"]
    ELSE LET sum == FAdd(FDiv(One, self.resistance), FDiv(One, other.resistance))
         IN  IF sum = Zero
             THEN [made |-> FALSE, new |-> NoResistor,
                   error |-> "ZeroDivisionError"]
             ELSE LET rp == FDiv(One, sum)
                      newrating == IF FLe(self.rating, other.rating)
                                   THEN self.rating ELSE other.rating
                  IN  [made |-> TRUE, new |-> Resistor(rp, self.tolerance, newrating),
                       error |-> "none"]

parallel(self, other) ==
    IF self.resistance = Zero \/ other.resistance = Zero
    THEN [made |-> FALSE, new |-> NoResistor, error |-> "ZeroDivisionError"]
    ELSE LET sum == FAdd(FDiv(One, self.resistance), FDiv(One, other.resistance))
         IN  IF sum = Zero
             THEN [made |-> FALSE, new |-> NoResistor,
                   error |-> "ZeroDivisionError"]
             ELSE LET rp == FDiv(One, sum)
                      newtol == IF FGe(self.tolerance, other.tolerance)
                                THEN self.tolerance ELSE other.tolerance
                      newrating == IF FLe(self.rating, other.rating)
                                   THEN self.rating ELSE other.rating
                  IN  [made |-> TRUE, new |-> Resistor(rp, newtol, newrating),
                       error |-> "none"]

__add__(self, other) == series(self, other)
__floordiv__(self, other) == parallel(self, other)

Combine(name, self, other) ==
    CASE name = "series" -> series(self, other)
      [] name = "__add__" -> __add__(self, other)
      [] name = "parallel" -> parallel(self, other)
      [] name = "__floordiv__" -> __floordiv__(self, other)

Combiners == { "series", "__add__", "parallel", "__floordiv__" }

\* The method whose body runs: the operator forms only delegate.
Method(name) ==
    CASE name = "__add__" -> "series"
      [] name = "__floordiv__" -> "parallel"
      [] OTHER -> name

Objects == 1 .. Len(heap)

\* The most recent call that ran a constructor, a mutator or a combination, and
\* its outcome: the receiver and the other operand (indices into
\* heap, 0 when there is none), the float argument, the exception raised,
\* whether an object was returned, the returned object as it is on return, and
\* its index in heap when the caller keeps it (0 when it is dropped).
Call(op, self, other, arg, error, made, new, result) ==
    [ op |-> op, self |-> self, other |-> other, arg |-> arg,
      error |-> error, made |-> made, new |-> new, result |-> result ]

NoCall == Call("none", 0, 0, Zero, "none", FALSE, NoResistor, 0)

(***************************************************************************)
(* class ResistorCapacitor                                                 *)
(***************************************************************************)
\* An object's instance attributes (its __dict__): attribute name -> value.
NoAttributes == [a \in {} |-> Zero]

\* The methods the class body defines.
ClassMethods == { "__init__", "set_voltage" }

\* Arguments of the self-test's kind: resistance, capacitance, initial voltage.
NetworkArgs ==
    { <<r, c, v0>> : r \in { One, <<5, 1>> },
                     c \in { <<1, -6>>, <<1, -4>> },
                     v0 \in { Zero, <<3, 2>>, <<-1, 0>> } }

\* Argument lists passed to set_voltage: (voltage) as the self-test calls it,
\* and (voltage, atTime).
SetVoltageArgs ==
    { <<v>> : v \in { Zero, <<5, 0>> } }
        \cup { <<v, t>> : v \in { Zero, <<5, 0>> }, t \in { Zero, One } }

\* Times passed to voltage(...), and the attributes the self-test reads.
Times == { Zero, <<1, -1>>, One, <<-1, 0>> }
AttributesRead == { "resistance", "capacitance", "initial_voltage" }

ResistorCapacitor(resistance, capacitance, initial) == NoAttributes

ResistorCapacitor_set_voltage(self, args) ==
    IF Len(args) # 1
    THEN [obj |-> self, error |-> "TypeError"]
    ELSE [obj |-> self, error |-> "none"]

\* Attribute lookup obj.name: the instance attributes, then the class.
getattr(self, name) ==
    IF name \in DOMAIN self
    THEN [found |-> TRUE, value |-> self[name], error |-> "none"]
    ELSE IF name \in ClassMethods
    THEN [found |-> TRUE, value |-> Zero, error |-> "none"]
    ELSE [found |-> FALSE, value |-> Zero, error |-> "AttributeError"]

\* rc.voltage(stime): the lookup of the attribute, then the call of what it
\* finds (an instance attribute holds a float, which is not callable).
ResistorCapacitor_voltage(self, stime) ==
    LET f == getattr(self, "voltage")
    IN  IF f.found THEN [value |-> Zero, error |-> "TypeError"]
        ELSE [value |-> Zero, error |-> f.error]

Networks == 1 .. Len(nets)

RCCall(op, self, args, attr, error, value) ==
    [ op |-> op, self |-> self, args |-> args, attr |-> attr,
      error |-> error, value |-> value ]

(***************************************************************************)
(* Initial state and the calls a driver can make                           *)
(***************************************************************************)
Init ==
    /\ heap = <<>>
    /\ last = NoCall
    /\ nets = <<>>
    /\ rclast = RCCall("none", 0, <<>>, "", "none", Zero)

CallResistor(args) ==
    LET new == Resistor(args[1], args[2], args[3])
    IN  /\ Len(heap) < MaxResistors
        /\ heap' = Append(heap, new)
        /\ last' = Call("Resistor", 0, 0, args[1], "none", TRUE, new, Len(heap) + 1)
        /\ UNCHANGED <<nets, rclast>>

CallSetVoltage(i, v) ==
    \E out \in { set_voltage(heap[i], v) } :
        /\ heap' = [heap EXCEPT ![i] = out.obj]
        /\ last' = Call("set_voltage", i, 0, v, out.error, FALSE, NoResistor, 0)
        /\ UNCHANGED <<nets, rclast>>

CallSetCurrent(i, amps) ==
    \E out \in { set_current(heap[i], amps) } :
        /\ heap' = [heap EXCEPT ![i] = out.obj]
        /\ last' = Call("set_current", i, 0, amps, out.error, FALSE, NoResistor, 0)
        /\ UNCHANGED <<nets, rclast>>

\* An accessor hands Accessor(name, heap[i]) to the caller and assigns nothing.
CallAccessor(name, i) ==
    /\ UNCHANGED <<heap, last, nets, rclast>>

\* The caller keeps the returned Resistor (when it has room for another
\* reference) or drops it after looking at it.
CallCombine(name, a, b) ==
    \E out \in { Combine(name, heap[a], heap[b]) } :
        \E keep \in { k \in BOOLEAN : k => out.made /\ Len(heap) < MaxResistors } :
            /\ heap' = IF keep THEN Append(heap, out.new) ELSE heap
            /\ last' = Call(Method(name), a, b, Zero, out.error, out.made, out.new,
                            IF keep THEN Len(heap) + 1 ELSE 0)
            /\ UNCHANGED <<nets, rclast>>

Next ==
    \/ \E args \in ResistorArgs : CallResistor(args)
    \/ \E i \in Objects, v \in Volts : CallSetVoltage(i, v)
    \/ \E i \in Objects, amps \in Amps : CallSetCurrent(i, amps)
    \/ \E name \in Accessors, i \in Objects : CallAccessor(name, i)
    \/ \E name \in Combiners, a \in Objects, b \in Objects : CallCombine(name, a, b)

Spec == Init /\ [][Next]_vars

CallResistorCapacitor(args) ==
    /\ Len(nets) < MaxNetworks
    /\ nets' = Append(nets, ResistorCapacitor(args[1], args[2], args[3]))
    /\ rclast' = RCCall("ResistorCapacitor", Len(nets) + 1, args, "", "none", Zero)
    /\ UNCHANGED <<heap, last>>

CallNetSetVoltage(n, args) ==
    LET out == ResistorCapacitor_set_voltage(nets[n], args)
    IN  /\ nets' = [nets EXCEPT ![n] = out.obj]
        /\ rclast' = RCCall("set_voltage", n, args, "", out.error, Zero)
        /\ UNCHANGED <<heap, last>>

CallNetVoltage(n, stime) ==
    LET out == ResistorCapacitor_voltage(nets[n], stime)
    IN  /\ rclast' = RCCall("voltage", n, <<stime>>, "", out.error, out.value)
        /\ UNCHANGED <<heap, last, nets>>

ReadAttribute(n, name) ==
    LET out == getattr(nets[n], name)
    IN  /\ rclast' = RCCall("getattr", n, <<>>, name, out.error, out.value)
        /\ UNCHANGED <<heap, last, nets>>

NextRC ==
    \/ \E args \in NetworkArgs : CallResistorCapacitor(args)
    \/ \E n \in Networks, args \in SetVoltageArgs : CallNetSetVoltage(n, args)
    \/ \E n \in Networks, stime \in Times : CallNetVoltage(n, stime)
    \/ \E n \in Networks, name \in AttributesRead : ReadAttribute(n, name)

SpecRC == Init /\ [][NextRC]_vars

(***************************************************************************)
(* Properties                                                              *)
(***************************************************************************)
FMax(a, b) == IF FLt(a, b) THEN b ELSE a
FMin(a, b) == IF FLt(b, a) THEN b ELSE a

Zeroed(r) ==
    get_voltage(r) = Zero /\ get_current(r) = Zero /\ get_power(r) = Zero

\* Ohm's law and the power relation on one Resistor.  Either of the two
\* equivalent forms of Ohm's law is accepted, since each setter computes one of
\* them exactly and the other only up to rounding.
Consistent(r) ==
    /\ \/ get_voltage(r) = FMul(get_current(r), get_resistance(r))
       \/ /\ get_resistance(r) # Zero
          /\ get_current(r) = FDiv(get_voltage(r), get_resistance(r))
    /\ get_power(r) = FAbs(FMul(get_voltage(r), get_current(r)))
    /\ FLe(Zero, get_power(r))

\* C1: between calls every Resistor's derived state is self-consistent:
\* current = voltage / resistance (or voltage = current * resistance) and
\* power = |voltage * current| >= 0, from construction on.
C1_SelfConsistent == \A i \in Objects : Consistent(heap[i])

\* C2: a.series(b) always returns a Resistor with resistance a + b, the larger
\* tolerance, the smaller rating, and voltage, current and power all 0,
\* whatever the electrical state of a and b.
C2_Series ==
    last.op = "series" =>
        LET a == heap[last.self]
            b == heap[last.other]
            r == last.new
        IN  /\ last.error = "none" /\ last.made
            /\ get_resistance(r) = FAdd(get_resistance(a), get_resistance(b))
            /\ get_tolerance(r) = FMax(get_tolerance(a), get_tolerance(b))
            /\ get_rating(r) = FMin(get_rating(a), get_rating(b))
            /\ Zeroed(r)
            /\ last.result # 0 => heap[last.result] = r

\* C2 happens: a series of two different objects with different tolerances and
\* ratings, the receiver carrying a non-zero voltage.
C2_Witness ==
    /\ last.op = "series" /\ last.made /\ last.self # last.other
    /\ get_voltage(heap[last.self]) # Zero
    /\ get_tolerance(heap[last.self]) # get_tolerance(heap[last.other])
    /\ get_rating(heap[last.self]) # get_rating(heap[last.other])

PositiveOperands ==
    /\ FLt(Zero, get_resistance(heap[last.self]))
    /\ FLt(Zero, get_resistance(heap[last.other]))

\* What C3 says of every parallel of two positive resistances but the
\* product-over-sum form and the strict decrease.
ParallelAsComputed ==
    LET a == heap[last.self]
        b == heap[last.other]
        r == last.new
    IN  /\ last.error = "none" /\ last.made
        /\ get_resistance(r) =
               FDiv(One, FAdd(FDiv(One, get_resistance(a)),
                              FDiv(One, get_resistance(b))))
        /\ get_tolerance(r) = get_tolerance(series(a, b).new)
        /\ get_rating(r) = get_rating(series(a, b).new)
        /\ get_tolerance(r) = FMax(get_tolerance(a), get_tolerance(b))
        /\ get_rating(r) = FMin(get_rating(a), get_rating(b))
        /\ Zeroed(r)
        /\ last.result # 0 => heap[last.result] = r

\* C3 (as amended): for a and b of positive resistance, a.parallel(b) returns a
\* Resistor whose resistance is 1 / (1/a + 1/b) as floating-point arithmetic
\* computes it, with the tolerance and rating a.series(b) gives and voltage,
\* current and power all 0.
C3_Parallel ==
    (last.op = "parallel" /\ PositiveOperands) => ParallelAsComputed

\* C3 (as stated): moreover that resistance equals a * b / (a + b) and is
\* strictly smaller than the resistance of a and of b.
C3_Original ==
    (last.op = "parallel" /\ PositiveOperands) =>
        LET ra == get_resistance(heap[last.self])
            rb == get_resistance(heap[last.other])
            rp == get_resistance(last.new)
        IN  /\ ParallelAsComputed
            /\ rp = FDiv(FMul(ra, rb), FAdd(ra, rb))
            /\ FLt(rp, ra)
            /\ FLt(rp, rb)

\* C3 happens: a parallel of two different positive resistances whose result
\* is not smaller than the receiver's resistance.
C3_Witness ==
    /\ last.op = "parallel" /\ last.made /\ PositiveOperands
    /\ get_resistance(heap[last.self]) # get_resistance(heap[last.other])
    /\ get_resistance(last.new) = get_resistance(heap[last.self])

\* C4: no call changes the resistance, tolerance or rating of an existing
\* Resistor; only set_voltage and set_current change an existing Resistor at
\* all, and only their receiver; a combination leaves both operands as they
\* were and its result, when kept, is a new object.
C4_Frame ==
    [][ /\ Len(heap') >= Len(heap)
        /\ \A i \in Objects :
              /\ get_resistance(heap'[i]) = get_resistance(heap[i])
              /\ get_tolerance(heap'[i]) = get_tolerance(heap[i])
              /\ get_rating(heap'[i]) = get_rating(heap[i])
              /\ heap'[i] # heap[i] =>
                    /\ last'.op \in { "set_voltage", "set_current" }
                    /\ last'.self = i
        /\ last'.result # 0 =>
              /\ last'.result = Len(heap) + 1
              /\ Len(heap') = Len(heap) + 1
      ]_vars

\* C4 happens: a combination whose result is kept beside a receiver that
\* carries a non-zero voltage.
C4_Witness ==
    /\ last.op \in { "series", "parallel" } /\ last.result # 0
    /\ get_voltage(heap[last.self]) # Zero

\* C5: Resistor(res, ...) with res <= 0 fails with InvalidParameter and makes
\* no Resistor, so every Resistor has resistance > 0.
C5_PositiveResistance ==
    /\ (last.op = "Resistor" /\ FLe(last.arg, Zero)) =>
           (last.error = "InvalidParameter" /\ ~last.made)
    /\ \A i \in Objects : FLt(Zero, get_resistance(heap[i]))

\* C6: parallel with an operand of resistance 0 fails with InvalidParameter
\* and returns no Resistor.
C6_ParallelZeroOperand ==
    ( /\ last.op = "parallel"
      /\ \/ get_resistance(heap[last.self]) = Zero
         \/ get_resistance(heap[last.other]) = Zero ) =>
        (last.error = "InvalidParameter" /\ ~last.made)

\* C7: a call that raises leaves the voltage, current and power of every
\* Resistor exactly as they were before the call.
C7_AllOrNothing ==
    [][ last'.error # "none" =>
            /\ Len(heap') = Len(heap)
            /\ \A i \in Objects :
                  /\ get_voltage(heap'[i]) = get_voltage(heap[i])
                  /\ get_current(heap'[i]) = get_current(heap[i])
                  /\ get_power(heap'[i]) = get_power(heap[i])
      ]_vars

\* C8: series and parallel are commutative: the call with the operands
\* exchanged returns (or fails) alike, with equal resistance, tolerance and
\* rating.
C8_Commutative ==
    last.op \in { "series", "parallel" } =>
        LET rev == Combine(last.op, heap[last.other], heap[last.self])
        IN  /\ rev.made = last.made
            /\ last.made =>
                  /\ get_resistance(rev.new) = get_resistance(last.new)
                  /\ get_tolerance(rev.new) = get_tolerance(last.new)
                  /\ get_rating(rev.new) = get_rating(last.new)

\* C8 happens: a parallel of two objects of different resistance and equal
\* tolerance (the tie case).
C8_Witness ==
    /\ last.op = "parallel" /\ last.made /\ last.self # last.other
    /\ get_resistance(heap[last.self]) # get_resistance(heap[last.other])
    /\ get_tolerance(heap[last.self]) = get_tolerance(heap[last.other])

\* C9: after set_voltage(v, ...) on an RC network the call has succeeded and
\* the network holds v as its target voltage.
C9_TargetRecorded ==
    rclast.op = "set_voltage" =>
        /\ rclast.error = "none"
        /\ \E attr \in DOMAIN nets[rclast.self] :
              nets[rclast.self][attr] = rclast.args[1]

\* C10: voltage(atTime) either succeeds (atTime >= referenceTime) or fails
\* with InvalidParameter (atTime < referenceTime), and changes no state.
C10_VoltageQuery ==
    rclast.op = "voltage" => rclast.error \in { "none", "InvalidParameter" }

====
